---- MODULE Spec2Model ----
(***************************************************************************)
(* Model of memtools' MemcacheMemoryPool (src/memtools/storages/memcache.py)*)
(* and of the MemcacheMemory gateway it pools.  Every thread runs pool      *)
(* operations; a step of a thread is one lock-delimited piece of a method.  *)
(* A critical section that makes one access to the list (count, the pop of  *)
(* _claim_client, the append of _return_client) is one step, taken when the *)
(* lock is free; the loops of grow and shrink hold the lock over many steps.*)
(* A second part models one gateway (MemcacheMemory or RedisMemory of       *)
(* src/memtools/storages/pyredis.py) used directly by one caller.  A third  *)
(* part models the Memoized wrapper of src/memtools/pattern.py over such a  *)
(* gateway.                                                                 *)
(***************************************************************************)
EXTENDS Integers, Sequences, FiniteSets, TLC

\* ---------------------------------------------------------------- bounds
Threads == {1, 2}
MaxLimit == 1
MaxNumber == 1
MaxClients == 2
Setters == {1}
Keys == {"k1"}
Values == {"None", "v1"}
Expires == {0, 1}
GwKeys == {"k1", "k2"}
GwKinds == {"memcache", "redis"}
\* the calls of a gateway that are remembered
LogLen == 2
\* the memoized functions, and the arguments they are called with: the
\* positional ones, and the keyword names in the order of the call site
Names == {"f", "g"}
ArgLists == {<<1>>}
Kwargs == {<<>>, <<"a", "i">>, <<"i", "a">>}
MemoCallers == {1}
\* two threads that call one memoized function at the same time, and the
\* keywords they call it with
MemoPair == {1, 2}
PairKwargs == {<<>>, <<"a", "i">>}

\* identities of the gateways that can be alive at once
MaxId == MaxClients + MaxLimit + 2 * Cardinality(Threads)

\* ------------------------------------------------------------- constants
\* the local `client` of __getitem__/__setitem__/__delitem__ before it is bound
NoClient == 0
\* threading.Lock() unlocked
Free == 0
\* default of the constructor's expire parameter
DefaultExpire == 0

VARIABLES upper_limit, lower_limit, clients, expire, gw_expire, lock, store,
          thread, callers, hist

\* one gateway used on its own: its class, its _expire, its server, and the
\* calls made on it
VARIABLES g_kind, g_expire, g_store, g_log

\* the pool is as its constructor left it: no method has been called yet
VARIABLE untouched

poolVars == <<upper_limit, lower_limit, clients, expire, gw_expire, lock,
              store, thread, callers, hist, untouched>>

gwVars == <<g_kind, g_expire, g_store, g_log>>

\* a memoized callable over the gateway: the decorator that built it, the
\* name of the function it wraps, the iteration order of a keyword dict of
\* this build, the call in progress of each caller, and the last call that
\* ended
VARIABLES m_decorator, m_f, m_dict, m_thread, m_prev

memoVars == <<m_decorator, m_f, m_dict, m_thread, m_prev>>

vars == <<poolVars, gwVars, memoVars>>

\* ------------------------------------------------------- pure functions
Range(s) == {s[i] : i \in 1..Len(s)}

Abs(x) == IF x < 0 THEN -x ELSE x

\* xrange(0, abs(upper_limit + lower_limit) / 2): Python 2 integer division
InitialCountUndivided(upper, lower) == Abs(upper + lower)

InitialCount(upper, lower) == Abs(upper + lower) \div 2

\* len(range(number)): a negative or zero number gives no iteration
RangeLenOffByOne(number) == IF number > 0 THEN number - 1 ELSE 0

RangeLen(number) == IF number > 0 THEN number ELSE 0

\* the list left by self._clients.pop() in _claim_client
ClaimRemainingKeep(s) == s

ClaimRemaining(s) == SubSeq(s, 1, Len(s) - 1)

\* the list left by self._clients.pop() in shrink
ShrinkRemaining(s) == SubSeq(s, 1, Len(s) - 1)

\* the test of _return_client: self.count() < self.upper_limit
ShouldReinsertInclusive(count, upper) == count <= upper

ShouldReinsert(count, upper) == count < upper

\* the test of _claim_client: self.count() < self.lower_limit
ShouldGrow(count, lower) == count < lower

\* the list after self._clients.append(client) in _return_client
ReturnAppended(s, c) == Append(s, c)

\* outcomes of a call: a returned value or a raised exception
NoOutcome == [kind |-> "none", v |-> "none"]
Ok(v) == [kind |-> "ok", v |-> v]
Raise(e) == [kind |-> "raise", v |-> e]

\* the memcached server: what is stored under a key, and the TTL it was
\* written with
Missing == [present |-> FALSE, v |-> "None", ttl |-> 0]

\* memcache.Client.get: None for a key that is not stored
BackendGet(st, k) == IF st[k].present THEN st[k].v ELSE "None"

\* memcache.Client.set(key, value, time)
BackendSet(st, k, v, ttl) ==
  [st EXCEPT ![k] = [present |-> TRUE, v |-> v, ttl |-> ttl]]

\* memcache.Client.delete: the number of keys removed
BackendDeleted(st, k) == IF st[k].present THEN 1 ELSE 0

BackendDelete(st, k) == [st EXCEPT ![k] = Missing]

\* MemcacheMemory.__getitem__
GatewayGet(st, k) ==
  LET value == BackendGet(st, k)
  IN  IF value = "NotSet" THEN Ok("None")
      ELSE IF value = "None" THEN Raise("KeyError")
      ELSE Ok(value)

\* MemcacheMemory.__setitem__: the value handed to the backend
GatewayEncodeAsIs(v) == v

GatewayEncode(v) == IF v = "None" THEN "NotSet" ELSE v

GatewaySetStaleTtl(st, k, v, ttl) ==
  BackendSet(st, k, GatewayEncode(v), DefaultExpire)

GatewaySet(st, k, v, ttl) == BackendSet(st, k, GatewayEncode(v), ttl)

\* MemcacheMemory.__delitem__, RedisMemory.__delitem__
GatewayDelOutcomeSilent(st, k) == Ok("None")

GatewayDelOutcome(st, k) ==
  IF BackendDeleted(st, k) = 0 THEN Raise("KeyError") ELSE Ok("None")

\* pickle: dumps(value) and loads(str(value))
Dumps(v) ==
  CASE v = "None" -> "pickle:None"
    [] v = "v1" -> "pickle:v1"
    [] v = "NotSet" -> "pickle:NotSet"

Loads(p) ==
  CASE p = "pickle:None" -> "None"
    [] p = "pickle:v1" -> "v1"
    [] p = "pickle:NotSet" -> "NotSet"

\* redis.Redis.expire(key, time)
BackendExpire(st, k, ttl) == [st EXCEPT ![k].ttl = ttl]

\* RedisMemory.__getitem__
RedisGet(st, k) ==
  LET value == BackendGet(st, k)
  IN  IF value = "None" THEN Raise("KeyError") ELSE Ok(Loads(value))

\* RedisMemory.__setitem__: SET drops the TTL the key had, then
\* if self._expire: self._client.expire(key, self._expire)
RedisSet(st, k, v, ttl) ==
  LET written == BackendSet(st, k, Dumps(v), 0)
  IN  IF ttl # 0 THEN BackendExpire(written, k, ttl) ELSE written

\* __getitem__ of a gateway of the given class
GwGetOutcomeMiss(kind, st, k) == Raise("KeyError")

GwGetOutcome(kind, st, k) ==
  IF kind = "redis" THEN RedisGet(st, k) ELSE GatewayGet(st, k)

\* the server after __setitem__ of a gateway of the given class
GwSetStore(kind, st, k, v, ttl) ==
  IF kind = "redis" THEN RedisSet(st, k, v, ttl) ELSE GatewaySet(st, k, v, ttl)

\* the decorators: Memory.__call__ (protocols.py) and memoize (pattern.py)
Decorators == {"Memory.__call__", "memoize"}

\* the hashing_function of the Memoized object a decorator builds:
\* Memoized(f, self) leaves the default md5; Memoized(f, self._memory,
\* self.debug) puts memoize's debug flag there
HashingFunction(decorator) ==
  IF decorator = "memoize" THEN "debug" ELSE "md5"

\* the value each keyword is given
KwValue == [a |-> 1, i |-> 2]

\* the slot of a key in an 8-slot dict table when it meets no collision
Slot == [a |-> 1, i |-> 2]

\* iteration order of a dict built by inserting the keys kw in turn: by
\* slot when the keys fall in different slots; when they collide the later
\* key is moved to a probe slot after or before the first one
DictOrders == {"by_slot", "inserted", "reversed"}

Reversed(kw) == [j \in 1..Len(kw) |-> kw[Len(kw) + 1 - j]]

BySlot(kw) ==
  IF Len(kw) = 2 /\ Slot[kw[1]] > Slot[kw[2]] THEN Reversed(kw) ELSE kw

DictIter(kw, order) ==
  CASE order = "by_slot" -> BySlot(kw)
    [] order = "inserted" -> kw
    [] order = "reversed" -> Reversed(kw)

\* str(args) of a tuple and str(kwargs) of a dict
StrTuple(args) == <<"(", args, ")">>

StrDict(kw, order) ==
  <<"{", [j \in 1..Len(kw) |-> <<DictIter(kw, order)[j],
                                  KwValue[DictIter(kw, order)[j]]>>], "}">>

\* "%s:%s;" for each item of kwargs.iteritems()
KwChunks(kw, order) ==
  [j \in 1..Len(kw) |-> <<DictIter(kw, order)[j], ":",
                          KwValue[DictIter(kw, order)[j]], ";">>]

\* md5(...).hexdigest() of the chunks fed to update(): distinct inputs of
\* the model have distinct digests
HexDigest(chunks) == [md5 |-> chunks]

\* Memoized.__create_key(f, *args, **kwargs)
CreateKey(name, args, kw, order) ==
  HexDigest(<<name>> \o args \o <<"|">> \o KwChunks(kw, order))

\* the call of __call__: self.__create_key(self.__f, args, kwargs), the
\* tuple and the dict handed over as two positional arguments
CallKey(name, args, kw, order) ==
  CreateKey(name, <<StrTuple(args), StrDict(kw, order)>>, <<>>, order)

MemoKeys ==
  {CallKey(n, a, kw, o) : n \in Names, a \in ArgLists,
                          kw \in Kwargs, o \in DictOrders}

\* the except clause of Memoized.__call__
HandledAny(exc) == TRUE

Handled(exc) == exc = "KeyError"

\* ---------------------------------------------------------------- state
IdleThread ==
  [pc |-> "idle", op |-> "none", number |-> 0, iter |-> 0,
   key |-> "none", value |-> "None", client |-> NoClient, cnt |-> 0,
   exc |-> "none", gw |-> NoOutcome]

\* what a call found when it started (len0: len(self._clients)) and what
\* _return_client was given (snap: the list, rel: the gateway); kept for a
\* call made on an otherwise idle pool, where it is compared with the result
NoHistory == [len0 |-> 0, snap |-> <<>>, rel |-> NoClient]

MemOps == {"getitem", "setitem", "delitem"}

\* a call of a memoized callable: its arguments, the key, the server it
\* found (pre), the result of the lookup (got), how often it ran the
\* function (computed), the gateway operations it made (ops) and its result
NoCall ==
  [pc |-> "idle", name |-> "none", args |-> <<>>, kw |-> <<>>,
   key |-> "none", pre |-> <<>>, got |-> NoOutcome, computed |-> 0,
   val |-> "None", ops |-> <<>>, out |-> NoOutcome]

\* gateways reachable from the pool or from a caller's local variable
Live == (Range(clients) \cup {thread[t].client : t \in Threads}) \ {NoClient}

\* a freshly constructed MemcacheMemory object
FreshId == CHOOSE i \in 1..MaxId : i \notin Live /\ \A j \in 1..(i - 1) : j \in Live

RECURSIVE PendingGrow(_)
PendingGrow(S) ==
  IF S = {} THEN 0
  ELSE LET t == CHOOSE x \in S : TRUE
       IN  (IF thread[t].pc \in {"grow_acquire", "grow_loop"}
              THEN thread[t].iter ELSE 0) + PendingGrow(S \ {t})

TypeOK ==
  /\ upper_limit \in 0..MaxLimit
  /\ lower_limit \in 0..MaxLimit
  /\ clients \in Seq(1..MaxId)
  /\ expire \in Expires
  /\ lock \in Threads \cup {Free}
  /\ callers \subseteq Threads

Init ==
  /\ upper_limit \in 0..MaxLimit
  /\ lower_limit \in 0..upper_limit
  /\ clients = [i \in 1..InitialCount(upper_limit, lower_limit) |-> i]
  /\ expire = DefaultExpire
  /\ gw_expire = [i \in 1..MaxId |-> DefaultExpire]
  /\ lock = Free
  /\ store = [k \in Keys |-> Missing]
  /\ thread = [t \in Threads |-> IdleThread]
  /\ callers \in {1..n : n \in 1..Cardinality(Threads)}
  /\ hist = [t \in Threads |-> NoHistory]
  /\ untouched = TRUE
  /\ g_kind = "memcache"
  /\ g_expire = DefaultExpire
  /\ g_store = [k \in GwKeys |-> Missing]
  /\ g_log = <<>>
  /\ m_decorator = "Memory.__call__"
  /\ m_f = "f"
  /\ m_dict = "by_slot"
  /\ m_thread = [t \in MemoCallers |-> NoCall]
  /\ m_prev = NoCall

Set(t, r) == thread' = [thread EXCEPT ![t] = r]

Alone == Cardinality(callers) = 1

Record(t, h) == hist' = IF Alone THEN [hist EXCEPT ![t] = h] ELSE hist

RecordStart(t) == Record(t, [NoHistory EXCEPT !.len0 = Len(clients)])

Forget(c) == [gw_expire EXCEPT ![c] = DefaultExpire]

\* ---------------------------------------------------- calls by a caller
CallCount(t) ==
  /\ t \in callers /\ thread[t].pc = "idle"
  /\ Set(t, [IdleThread EXCEPT !.pc = "count", !.op = "count"])
  /\ UNCHANGED <<upper_limit, lower_limit, clients, expire, gw_expire, lock,
                 store, callers>>
  /\ RecordStart(t)

CallGrow(t, number) ==
  /\ t \in callers /\ thread[t].pc = "idle"
  /\ Len(clients) + RangeLen(number) + PendingGrow(Threads) <= MaxClients
  /\ Set(t, [IdleThread EXCEPT !.pc = "grow_acquire", !.op = "grow",
                               !.number = number, !.iter = RangeLen(number)])
  /\ UNCHANGED <<upper_limit, lower_limit, clients, expire, gw_expire, lock,
                 store, callers>>
  /\ RecordStart(t)

CallShrink(t, number) ==
  /\ t \in callers /\ thread[t].pc = "idle"
  /\ Set(t, [IdleThread EXCEPT !.pc = "shrink_acquire", !.op = "shrink",
                               !.number = number, !.iter = RangeLen(number)])
  /\ UNCHANGED <<upper_limit, lower_limit, clients, expire, gw_expire, lock,
                 store, callers>>
  /\ RecordStart(t)

\* __getitem__, __setitem__, __delitem__ enter _claim_client, which starts
\* with self.count()
CallItem(t, op, k, v) ==
  /\ t \in callers /\ thread[t].pc = "idle"
  /\ Set(t, [IdleThread EXCEPT !.pc = "claim_count", !.op = op,
                               !.key = k, !.value = v])
  /\ UNCHANGED <<upper_limit, lower_limit, clients, expire, gw_expire, lock,
                 store, callers>>
  /\ RecordStart(t)

CallGetitem(t, k) == CallItem(t, "getitem", k, "None")

CallSetitem(t, k, v) == CallItem(t, "setitem", k, v)

CallDelitem(t, k) == CallItem(t, "delitem", k, "None")

\* pool._expire = value: the property setter __expire_set, first statement
CallExpireSet(t, value) ==
  /\ t \in callers /\ thread[t].pc = "idle"
  /\ IF expire # value
       THEN /\ expire' = value
            /\ Set(t, [IdleThread EXCEPT !.pc = "expire_loop",
                                         !.op = "expire", !.number = value,
                                         !.iter = 1])
       ELSE /\ expire' = expire
            /\ Set(t, [IdleThread EXCEPT !.pc = "done", !.op = "expire",
                                         !.number = value])
  /\ UNCHANGED <<upper_limit, lower_limit, clients, gw_expire, lock, store,
                 callers>>
  /\ RecordStart(t)

\* for i in self._clients: i._expire = value  (no lock taken)
ExpireLoop(t) ==
  /\ thread[t].pc = "expire_loop"
  /\ IF thread[t].iter <= Len(clients)
       THEN /\ gw_expire' = [gw_expire EXCEPT ![clients[thread[t].iter]] =
                                                 thread[t].number]
            /\ Set(t, [thread[t] EXCEPT !.iter = @ + 1])
       ELSE /\ gw_expire' = gw_expire
            /\ Set(t, [thread[t] EXCEPT !.pc = "done"])
  /\ UNCHANGED <<upper_limit, lower_limit, clients, expire, lock, store,
                 callers, hist>>

\* ------------------------------------------------------------- the pool
\* count: self.__clients_lock.acquire() returns once the lock is free
CountReadsUnlocked(l) == TRUE

CountAcquired(l) == l = Free

\* count(), called by a caller: acquire, return len(self._clients), release
Count(t) ==
  /\ thread[t].pc = "count" /\ CountAcquired(lock)
  /\ Set(t, [thread[t] EXCEPT !.pc = "done", !.cnt = Len(clients)])
  /\ UNCHANGED <<upper_limit, lower_limit, clients, expire, gw_expire, lock,
                 store, callers, hist>>

\* _claim_client: if self.count() < self.lower_limit: self.grow()
ClaimCount(t) ==
  /\ thread[t].pc = "claim_count" /\ lock = Free
  /\ IF ShouldGrow(Len(clients), lower_limit)
       THEN Set(t, [thread[t] EXCEPT !.pc = "grow_acquire", !.number = 1,
                                     !.iter = RangeLen(1)])
       ELSE Set(t, [thread[t] EXCEPT !.pc = "claim_pop"])
  /\ UNCHANGED <<upper_limit, lower_limit, clients, expire, gw_expire, lock,
                 store, callers, hist>>

AfterAcquire(pc) ==
  CASE pc = "grow_acquire" -> "grow_loop"
    [] pc = "shrink_acquire" -> "shrink_loop"

\* grow, shrink: self.__clients_lock.acquire() blocks while the lock is taken
Acquire(t) ==
  /\ thread[t].pc \in {"grow_acquire", "shrink_acquire"}
  /\ lock = Free
  /\ lock' = t
  /\ Set(t, [thread[t] EXCEPT !.pc = AfterAcquire(@)])
  /\ UNCHANGED <<upper_limit, lower_limit, clients, expire, gw_expire, store,
                 callers, hist>>

\* grow: one iteration of the loop, under the lock
GrowAppend(t) ==
  /\ thread[t].pc = "grow_loop" /\ lock = t
  /\ thread[t].iter > 0
  /\ clients' = Append(clients, FreshId)
  /\ gw_expire' = [gw_expire EXCEPT ![FreshId] = expire]
  /\ Set(t, [thread[t] EXCEPT !.iter = @ - 1])
  /\ UNCHANGED <<upper_limit, lower_limit, expire, lock, store, callers, hist>>

\* grow: end of the loop, release; the grow() of _claim_client goes on to
\* the pop
GrowRelease(t) ==
  /\ thread[t].pc = "grow_loop" /\ lock = t
  /\ thread[t].iter = 0
  /\ lock' = Free
  /\ Set(t, [thread[t] EXCEPT !.pc = IF thread[t].op = "grow"
                                       THEN "done" ELSE "claim_pop"])
  /\ UNCHANGED <<upper_limit, lower_limit, clients, expire, gw_expire, store,
                 callers, hist>>

\* shrink: one iteration of the loop, under the lock
ShrinkPop(t) ==
  /\ thread[t].pc = "shrink_loop" /\ lock = t
  /\ thread[t].iter > 0
  /\ clients # <<>>
  /\ clients' = ShrinkRemaining(clients)
  /\ gw_expire' = Forget(clients[Len(clients)])
  /\ Set(t, [thread[t] EXCEPT !.iter = @ - 1])
  /\ UNCHANGED <<upper_limit, lower_limit, expire, lock, store, callers, hist>>

\* shrink: pop from an empty list raises IndexError; nothing releases the lock
ShrinkFail(t) ==
  /\ thread[t].pc = "shrink_loop" /\ lock = t
  /\ thread[t].iter > 0
  /\ clients = <<>>
  /\ Set(t, [thread[t] EXCEPT !.pc = "done", !.exc = "IndexError"])
  /\ UNCHANGED <<upper_limit, lower_limit, clients, expire, gw_expire, lock,
                 store, callers, hist>>

\* shrink: end of the loop, release
ShrinkRelease(t) ==
  /\ thread[t].pc = "shrink_loop" /\ lock = t
  /\ thread[t].iter = 0
  /\ lock' = Free
  /\ Set(t, [thread[t] EXCEPT !.pc = "done"])
  /\ UNCHANGED <<upper_limit, lower_limit, clients, expire, gw_expire, store,
                 callers, hist>>

\* _claim_client: the lock when the method is left, by return or by
\* IndexError: finally self.__clients_lock.release()
ClaimLockKept(t) == t

ClaimLockReleased(t) == Free

\* _claim_client: acquire, return self._clients.pop(), finally release
ClaimPop(t) ==
  /\ thread[t].pc = "claim_pop" /\ lock = Free
  /\ lock' = ClaimLockReleased(t)
  /\ IF clients = <<>>
       THEN /\ clients' = clients
            /\ Set(t, [thread[t] EXCEPT !.pc = "finally",
                                        !.exc = "IndexError"])
       ELSE /\ clients' = ClaimRemaining(clients)
            /\ Set(t, [thread[t] EXCEPT !.pc = "delegate",
                                        !.client = clients[Len(clients)]])
  /\ UNCHANGED <<upper_limit, lower_limit, expire, gw_expire, store,
                 callers, hist>>

\* the delegated call on the claimed gateway: client[key], client[key] =
\* value, client.__delitem__(key); the backend binding may fail on its own
Delegate(t, fail) ==
  LET th == thread[t]
      out == IF fail THEN Raise("BackendError")
             ELSE CASE th.op = "getitem" -> GatewayGet(store, th.key)
                    [] th.op = "setitem" -> Ok("None")
                    [] th.op = "delitem" -> GatewayDelOutcome(store, th.key)
  IN
  /\ th.pc = "delegate"
  /\ store' = IF fail THEN store
              ELSE CASE th.op = "getitem" -> store
                     [] th.op = "setitem" ->
                          GatewaySet(store, th.key, th.value,
                                     gw_expire[th.client])
                     [] th.op = "delitem" -> BackendDelete(store, th.key)
  /\ Set(t, [th EXCEPT !.pc = "finally", !.gw = out,
                       !.exc = IF out.kind = "raise" THEN out.v ELSE "none"])
  /\ UNCHANGED <<upper_limit, lower_limit, clients, expire, gw_expire, lock,
                 callers, hist>>

\* __getitem__: finally self.__return_client(client); the mangled name
\* _MemcacheMemoryPool__return_client does not exist, so the attribute lookup
\* raises AttributeError and the claimed gateway is dropped
FinallyGetitem(t) ==
  /\ thread[t].pc = "finally" /\ thread[t].op = "getitem"
  /\ Set(t, [thread[t] EXCEPT !.pc = "done", !.exc = "AttributeError",
                              !.client = NoClient])
  /\ gw_expire' = IF thread[t].client = NoClient THEN gw_expire
                  ELSE Forget(thread[t].client)
  /\ UNCHANGED <<upper_limit, lower_limit, clients, expire, lock, store,
                 callers, hist>>

\* __setitem__, __delitem__: finally self._return_client(client); when the
\* claim failed `client` is unbound and evaluating it raises
\* UnboundLocalError; otherwise _return_client starts with self.count()
FinallyReturn(t) ==
  /\ thread[t].pc = "finally" /\ thread[t].op \in {"setitem", "delitem"}
  /\ IF thread[t].client = NoClient
       THEN Set(t, [thread[t] EXCEPT !.pc = "done",
                                     !.exc = "UnboundLocalError"])
       ELSE Set(t, [thread[t] EXCEPT !.pc = "return_count"])
  /\ UNCHANGED <<upper_limit, lower_limit, clients, expire, gw_expire, lock,
                 store, callers>>
  /\ IF thread[t].client = NoClient
       THEN hist' = hist
       ELSE Record(t, [hist[t] EXCEPT !.snap = clients,
                                      !.rel = thread[t].client])

\* _return_client: if self.count() < self.upper_limit; when the test fails
\* the method returns and the gateway is dropped
ReturnCount(t) ==
  /\ thread[t].pc = "return_count" /\ lock = Free
  /\ IF ShouldReinsert(Len(clients), upper_limit)
       THEN /\ Set(t, [thread[t] EXCEPT !.pc = "return_append"])
            /\ gw_expire' = gw_expire
       ELSE /\ Set(t, [thread[t] EXCEPT !.pc = "done", !.client = NoClient])
            /\ gw_expire' = Forget(thread[t].client)
  /\ UNCHANGED <<upper_limit, lower_limit, clients, expire, lock, store,
                 callers, hist>>

\* _return_client: acquire, self._clients.append(client), release
ReturnAppend(t) ==
  /\ thread[t].pc = "return_append" /\ lock = Free
  /\ clients' = ReturnAppended(clients, thread[t].client)
  /\ Set(t, [thread[t] EXCEPT !.pc = "done", !.client = NoClient])
  /\ UNCHANGED <<upper_limit, lower_limit, expire, gw_expire, lock, store,
                 callers, hist>>

\* the operation returns to (or raises into) its caller
Return(t) ==
  /\ thread[t].pc = "done"
  /\ Set(t, IdleThread)
  /\ UNCHANGED <<upper_limit, lower_limit, clients, expire, gw_expire, lock,
                 store, callers>>
  /\ Record(t, NoHistory)

\* the steps every operation is made of
Steps ==
  \/ \E t \in Threads : Acquire(t)
  \/ \E t \in Threads : GrowAppend(t)
  \/ \E t \in Threads : GrowRelease(t)
  \/ \E t \in Threads : ClaimCount(t)
  \/ \E t \in Threads : ClaimPop(t)
  \/ \E t \in Threads, fail \in BOOLEAN : Delegate(t, fail)
  \/ \E t \in Threads : FinallyReturn(t)
  \/ \E t \in Threads : ReturnCount(t)
  \/ \E t \in Threads : ReturnAppend(t)
  \/ \E t \in Threads : Return(t)

PoolSteps ==
  \/ \E t \in Threads : Count(t)
  \/ \E t \in Threads : ShrinkPop(t)
  \/ \E t \in Threads : ShrinkFail(t)
  \/ \E t \in Threads : ShrinkRelease(t)
  \/ \E t \in Threads : FinallyGetitem(t)

PoolCalls ==
  \/ \E t \in Threads : CallCount(t)
  \/ \E t \in Threads, number \in 0..MaxNumber : CallShrink(t, number)
  \/ \E t \in Threads, k \in Keys : CallGetitem(t, k)
  \/ \E t \in Threads, k \in Keys : CallDelitem(t, k)

GrowCalls == \E t \in Threads, number \in -1..MaxNumber : CallGrow(t, number)

SetCalls == \E t \in Threads, k \in Keys, v \in Values : CallSetitem(t, k, v)

\* one thread at a time assigns pool._expire
ExpireCalls ==
  \/ \E t \in Setters, value \in Expires : CallExpireSet(t, value)
  \/ \E t \in Setters : ExpireLoop(t)

\* every operation
Next ==
  /\ Steps \/ PoolSteps \/ PoolCalls \/ GrowCalls \/ SetCalls \/ ExpireCalls
  /\ untouched' = FALSE
  /\ UNCHANGED <<gwVars, memoVars>>

\* the operations on the members and on the backend, without the TTL setter
NextPool ==
  /\ Steps \/ PoolSteps \/ PoolCalls \/ GrowCalls \/ SetCalls
  /\ untouched' = FALSE
  /\ UNCHANGED <<gwVars, memoVars>>

\* writes, growth and the TTL setter
NextExpire ==
  /\ Steps \/ GrowCalls \/ SetCalls \/ ExpireCalls
  /\ untouched' = FALSE
  /\ UNCHANGED <<gwVars, memoVars>>

\* one caller: every operation runs on an otherwise idle pool
InitSeq == Init /\ callers = {1}

\* several callers
InitPool == Init /\ callers = Threads

Spec == InitSeq /\ [][Next]_vars

SpecPool == InitPool /\ [][NextPool]_vars

SpecExpire == InitPool /\ [][NextExpire]_vars

\* one caller and limits up to MaxLimit + 1, so that a pool can be more
\* than one member below its lower_limit
InitWide ==
  /\ upper_limit \in 0..(MaxLimit + 1)
  /\ lower_limit \in 0..upper_limit
  /\ clients = [i \in 1..InitialCount(upper_limit, lower_limit) |-> i]
  /\ expire = DefaultExpire
  /\ gw_expire = [i \in 1..MaxId |-> DefaultExpire]
  /\ lock = Free
  /\ store = [k \in Keys |-> Missing]
  /\ thread = [t \in Threads |-> IdleThread]
  /\ callers = {1}
  /\ hist = [t \in Threads |-> NoHistory]
  /\ untouched = TRUE
  /\ g_kind = "memcache"
  /\ g_expire = DefaultExpire
  /\ g_store = [k \in GwKeys |-> Missing]
  /\ g_log = <<>>
  /\ m_decorator = "Memory.__call__"
  /\ m_f = "f"
  /\ m_dict = "by_slot"
  /\ m_thread = [t \in MemoCallers |-> NoCall]
  /\ m_prev = NoCall

SpecWide == InitWide /\ [][Next]_vars

\* count() beside grow(n) and shrink(n) of more than one member, and beside
\* get/set/delete
ResizeCalls ==
  \/ \E t \in Threads, number \in 0..(MaxNumber + 1) : CallGrow(t, number)
  \/ \E t \in Threads, number \in 0..(MaxNumber + 1) : CallShrink(t, number)
  \/ \E t \in Threads : CallCount(t)

ItemCalls ==
  \/ \E t \in Threads, k \in Keys : CallGetitem(t, k)
  \/ \E t \in Threads, k \in Keys : CallDelitem(t, k)
  \/ SetCalls

NextCount ==
  /\ Steps \/ PoolSteps \/ ResizeCalls \/ ItemCalls
  /\ untouched' = FALSE
  /\ UNCHANGED <<gwVars, memoVars>>

SpecCount == InitPool /\ [][NextCount]_vars

\* get/set/delete from several threads and nothing else: no caller calls
\* grow, shrink or count
NextItems ==
  /\ Steps \/ (\E t \in Threads : FinallyGetitem(t)) \/ ItemCalls
  /\ untouched' = FALSE
  /\ UNCHANGED <<gwVars, memoVars>>

SpecItems == InitPool /\ [][NextItems]_vars

\* ------------------------------------------------- one gateway on its own
\* a call made on the gateway: what it was given, what it gave back, and the
\* server (pre) and the _expire (exp0) it found
LogEntry(op, k, v, out) ==
  [op |-> op, key |-> k, value |-> v, out |-> out, pre |-> g_store,
   exp0 |-> g_expire]

Logged(e) ==
  g_log' = IF Len(g_log) < LogLen THEN Append(g_log, e)
           ELSE Append(Tail(g_log), e)

\* gateway[key]; the backend binding may fail on its own
GwGetitem(k, fail) ==
  /\ Logged(LogEntry("getitem", k, "None",
                     IF fail THEN Raise("BackendError")
                     ELSE GwGetOutcome(g_kind, g_store, k)))
  /\ UNCHANGED <<g_kind, g_expire, g_store>>

\* gateway[key] = value
GwSetitem(k, v, fail) ==
  /\ g_store' = IF fail THEN g_store
                ELSE GwSetStore(g_kind, g_store, k, v, g_expire)
  /\ Logged(LogEntry("setitem", k, v,
                     IF fail THEN Raise("BackendError") ELSE Ok("None")))
  /\ UNCHANGED <<g_kind, g_expire>>

\* del gateway[key]
GwDelitem(k, fail) ==
  /\ g_store' = IF fail THEN g_store ELSE BackendDelete(g_store, k)
  /\ Logged(LogEntry("delitem", k, "None",
                     IF fail THEN Raise("BackendError")
                     ELSE GatewayDelOutcome(g_store, k)))
  /\ UNCHANGED <<g_kind, g_expire>>

\* gateway._expire = value
GwSetExpire(value) ==
  /\ g_expire' = value
  /\ Logged(LogEntry("expire", "none", "None", Ok("None")))
  /\ UNCHANGED <<g_kind, g_store>>

InitGateway ==
  /\ upper_limit = 0
  /\ lower_limit = 0
  /\ clients = <<>>
  /\ expire = DefaultExpire
  /\ gw_expire = [i \in 1..MaxId |-> DefaultExpire]
  /\ lock = Free
  /\ store = [k \in Keys |-> Missing]
  /\ thread = [t \in Threads |-> IdleThread]
  /\ callers = {1}
  /\ hist = [t \in Threads |-> NoHistory]
  /\ untouched = TRUE
  /\ g_kind \in GwKinds
  /\ g_expire \in Expires
  /\ g_store = [k \in GwKeys |-> Missing]
  /\ g_log = <<>>
  /\ m_decorator = "Memory.__call__"
  /\ m_f = "f"
  /\ m_dict = "by_slot"
  /\ m_thread = [t \in MemoCallers |-> NoCall]
  /\ m_prev = NoCall

NextGateway ==
  /\ \/ \E k \in GwKeys, fail \in BOOLEAN : GwGetitem(k, fail)
     \/ \E k \in GwKeys, v \in Values, fail \in BOOLEAN : GwSetitem(k, v, fail)
     \/ \E k \in GwKeys, fail \in BOOLEAN : GwDelitem(k, fail)
     \/ \E value \in Expires : GwSetExpire(value)
  /\ UNCHANGED <<poolVars, memoVars>>

SpecGateway == InitGateway /\ [][NextGateway]_vars

\* ---------------------------------------------- the memoized callable
MSet(t, r) == m_thread' = [m_thread EXCEPT ![t] = r]

\* Memoized.__call__, up to the key: a hashing_function that is not callable
\* ends the call with TypeError
MemoCall(t, args, kw) ==
  /\ m_thread[t].pc = "idle"
  /\ LET call == [NoCall EXCEPT !.name = m_f, !.args = args, !.kw = kw,
                                !.pre = g_store]
     IN  IF HashingFunction(m_decorator) = "md5"
           THEN MSet(t, [call EXCEPT !.pc = "lookup",
                                     !.key = CallKey(m_f, args, kw, m_dict)])
           ELSE MSet(t, [call EXCEPT !.pc = "done",
                                     !.out = Raise("TypeError")])
  /\ UNCHANGED <<gwVars, m_decorator, m_f, m_dict, m_prev>>

\* try: return self.__memo[key] / except KeyError
MemoLookup(t, fail) ==
  /\ m_thread[t].pc = "lookup"
  /\ LET got == IF fail THEN Raise("BackendError")
                ELSE GwGetOutcome(g_kind, g_store, m_thread[t].key)
         call == [m_thread[t] EXCEPT !.got = got,
                                     !.ops = Append(@, "getitem")]
     IN  IF got.kind = "raise" /\ Handled(got.v)
           THEN MSet(t, [call EXCEPT !.pc = "compute"])
           ELSE MSet(t, [call EXCEPT !.pc = "done", !.out = got])
  /\ UNCHANGED <<gwVars, m_decorator, m_f, m_dict, m_prev>>

\* val = self.__f(*args, **kwargs); the function may raise
MemoCompute(t, result) ==
  /\ m_thread[t].pc = "compute"
  /\ IF result.kind = "ok"
       THEN MSet(t, [m_thread[t] EXCEPT !.pc = "store", !.val = result.v,
                                        !.computed = @ + 1])
       ELSE MSet(t, [m_thread[t] EXCEPT !.pc = "done", !.out = result,
                                        !.computed = @ + 1])
  /\ UNCHANGED <<gwVars, m_decorator, m_f, m_dict, m_prev>>

\* self.__memo[key] = val; return val
MemoStore(t, fail) ==
  /\ m_thread[t].pc = "store"
  /\ g_store' = IF fail THEN g_store
                ELSE GwSetStore(g_kind, g_store, m_thread[t].key,
                                m_thread[t].val, g_expire)
  /\ MSet(t, [m_thread[t] EXCEPT
               !.pc = "done", !.ops = Append(@, "setitem"),
               !.out = IF fail THEN Raise("BackendError")
                       ELSE Ok(m_thread[t].val)])
  /\ UNCHANGED <<g_kind, g_expire, g_log, m_decorator, m_f, m_dict, m_prev>>

\* the call is over; what it did is remembered, the server it found is not
MemoReturn(t) ==
  /\ m_thread[t].pc = "done"
  /\ m_prev' = [m_thread[t] EXCEPT !.pre = <<>>]
  /\ MSet(t, NoCall)
  /\ UNCHANGED <<gwVars, m_decorator, m_f, m_dict>>

Results == {Ok(v) : v \in Values} \cup {Raise("ComputeError")}

InitMemo ==
  /\ upper_limit = 0
  /\ lower_limit = 0
  /\ clients = <<>>
  /\ expire = DefaultExpire
  /\ gw_expire = [i \in 1..MaxId |-> DefaultExpire]
  /\ lock = Free
  /\ store = [k \in Keys |-> Missing]
  /\ thread = [t \in Threads |-> IdleThread]
  /\ callers = {1}
  /\ hist = [t \in Threads |-> NoHistory]
  /\ untouched = TRUE
  /\ g_kind \in GwKinds
  /\ g_expire = DefaultExpire
  /\ g_store = [k \in MemoKeys |-> Missing]
  /\ g_log = <<>>
  /\ m_decorator \in Decorators
  /\ m_f \in Names
  /\ m_dict \in DictOrders
  /\ m_thread = [t \in MemoCallers |-> NoCall]
  /\ m_prev = NoCall

NextMemo ==
  /\ \/ \E t \in MemoCallers, args \in ArgLists, kw \in Kwargs :
          MemoCall(t, args, kw)
     \/ \E t \in MemoCallers, fail \in BOOLEAN : MemoLookup(t, fail)
     \/ \E t \in MemoCallers, result \in Results : MemoCompute(t, result)
     \/ \E t \in MemoCallers, fail \in BOOLEAN : MemoStore(t, fail)
     \/ \E t \in MemoCallers : MemoReturn(t)
  /\ UNCHANGED poolVars

SpecMemo == InitMemo /\ [][NextMemo]_vars

\* two threads calling one callable memoized by Memory.__call__
InitMemoPair ==
  /\ upper_limit = 0
  /\ lower_limit = 0
  /\ clients = <<>>
  /\ expire = DefaultExpire
  /\ gw_expire = [i \in 1..MaxId |-> DefaultExpire]
  /\ lock = Free
  /\ store = [k \in Keys |-> Missing]
  /\ thread = [t \in Threads |-> IdleThread]
  /\ callers = {1}
  /\ hist = [t \in Threads |-> NoHistory]
  /\ untouched = TRUE
  /\ g_kind \in GwKinds
  /\ g_expire = DefaultExpire
  /\ g_store = [k \in MemoKeys |-> Missing]
  /\ g_log = <<>>
  /\ m_decorator \in Decorators
  /\ m_f \in Names
  /\ m_dict \in DictOrders
  /\ m_thread = [t \in MemoPair |-> NoCall]
  /\ m_prev = NoCall

NextMemoPair ==
  /\ \/ \E t \in MemoPair, args \in ArgLists, kw \in PairKwargs :
          MemoCall(t, args, kw)
     \/ \E t \in MemoPair, fail \in BOOLEAN : MemoLookup(t, fail)
     \/ \E t \in MemoPair, result \in Results : MemoCompute(t, result)
     \/ \E t \in MemoPair, fail \in BOOLEAN : MemoStore(t, fail)
     \/ \E t \in MemoPair : MemoReturn(t)
  /\ UNCHANGED poolVars

SpecMemoPair == InitMemoPair /\ [][NextMemoPair]_vars

\* ---------------------------------------------------------- properties
\* the result of a pool __getitem__/__setitem__/__delitem__ as its caller
\* sees it: the exception that leaves the method, else the delegated result
Outcome(t) ==
  IF thread[t].exc # "none" THEN Raise(thread[t].exc) ELSE thread[t].gw

Min(a, b) == IF a < b THEN a ELSE b

\* C1: under any interleaving of pool get/set/delete (and grow, shrink,
\* count) from several threads, no two callers hold the same gateway, a
\* gateway held by a caller is not in the pool's list, and no gateway is in
\* the list twice.
C1_ClaimIsExclusive ==
  /\ \A t1, t2 \in Threads :
       (t1 # t2 /\ thread[t1].client # NoClient)
         => thread[t1].client # thread[t2].client
  /\ \A t \in Threads :
       thread[t].client # NoClient => thread[t].client \notin Range(clients)
  /\ \A i, j \in 1..Len(clients) : i # j => clients[i] # clients[j]

\* C1 witness: two callers hold a gateway each while the pool has members
C1_Witness ==
  /\ \A t \in Threads : thread[t].pc = "delegate"
                        /\ thread[t].client # NoClient
  /\ clients # <<>>

\* C2: whenever no operation is running and no member is claimed,
\* lower_limit <= count() <= upper_limit.
C2_IdleWithinLimits ==
  (\A t \in Threads : thread[t].pc = "idle" /\ thread[t].client = NoClient)
    => (lower_limit <= Len(clients) /\ Len(clients) <= upper_limit)

\* C3: a pool get, set or delete started on an otherwise idle pool with
\* lower_limit <= count() <= upper_limit and count() >= 1 ends, on every exit
\* path, with count() equal to its value before the call.
C3_ItemCallKeepsCount ==
  \A t \in Threads :
    (/\ Alone
     /\ thread[t].pc = "done" /\ thread[t].op \in MemOps
     /\ lower_limit <= hist[t].len0 /\ hist[t].len0 <= upper_limit
     /\ hist[t].len0 >= 1)
      => Len(clients) = hist[t].len0

\* C4: a pool get, set or delete that was given a member gives its caller
\* the result (value or failure) of the same operation on one gateway of that
\* backend.
C4_PoolActsAsGateway ==
  \A t \in Threads :
    (/\ thread[t].pc = "done" /\ thread[t].op \in MemOps
     /\ thread[t].gw.kind # "none")
      => Outcome(t) = thread[t].gw

\* C5: shrink(n) never fails and removes min(n, count()) members.
C5_ShrinkNeverFails ==
  \A t \in Threads :
    (Alone /\ thread[t].pc = "done" /\ thread[t].op = "shrink")
      => (/\ thread[t].exc = "none"
          /\ Len(clients) = hist[t].len0 - Min(thread[t].number, hist[t].len0))

\* C6 as stated: for every target n in [lower_limit, upper_limit] and every
\* current size, grow(n - count()) on an idle pool leaves count() == n.
C6_GrowReachesAnyTarget ==
  \A t \in Threads :
    (/\ Alone
     /\ thread[t].pc = "done" /\ thread[t].op = "grow"
     /\ lower_limit <= hist[t].len0 + thread[t].number
     /\ hist[t].len0 + thread[t].number <= upper_limit)
      => Len(clients) = hist[t].len0 + thread[t].number

\* C6 amended: for every target n in [lower_limit, upper_limit] and every
\* current size count() <= n, grow(n - count()) on an idle pool leaves
\* count() == n.
C6_GrowReachesTargetAbove ==
  \A t \in Threads :
    (/\ Alone
     /\ thread[t].pc = "done" /\ thread[t].op = "grow"
     /\ thread[t].number >= 0
     /\ lower_limit <= hist[t].len0 + thread[t].number
     /\ hist[t].len0 + thread[t].number <= upper_limit)
      => Len(clients) = hist[t].len0 + thread[t].number

\* C6 witness: a grow by a positive number to a target within the limits has
\* returned
C6_Witness ==
  \E t \in Threads :
    /\ Alone
    /\ thread[t].pc = "done" /\ thread[t].op = "grow"
    /\ thread[t].number > 0
    /\ lower_limit <= hist[t].len0 + thread[t].number
    /\ hist[t].len0 + thread[t].number <= upper_limit

\* C7: a claim on a pool with count() == 0, lower_limit == 0 and
\* upper_limit == 0 fails with the pool's own exhaustion error (OutOfBounds)
\* and leaves the pool unchanged.
C7_ClaimFailsWithPoolExhausted ==
  \A t \in Threads :
    (/\ Alone
     /\ thread[t].pc = "finally" /\ thread[t].client = NoClient
     /\ upper_limit = 0 /\ lower_limit = 0 /\ hist[t].len0 = 0)
      => (thread[t].exc = "OutOfBounds" /\ clients = <<>>)

\* C8: with no concurrent operation, _return_client(gateway) called while
\* count() == upper_limit leaves the list unchanged, and called while
\* count() < upper_limit appends exactly that gateway.
C8_ReleaseRespectsUpperLimit ==
  \A t \in Threads :
    (/\ Alone
     /\ thread[t].pc = "done" /\ hist[t].rel # NoClient)
      => /\ Len(hist[t].snap) = upper_limit => clients = hist[t].snap
         /\ Len(hist[t].snap) < upper_limit
              => clients = Append(hist[t].snap, hist[t].rel)

\* C8 witness: a release made while count() == upper_limit has returned
C8_Witness ==
  \E t \in Threads :
    /\ Alone
    /\ thread[t].pc = "done" /\ hist[t].rel # NoClient
    /\ Len(hist[t].snap) = upper_limit

\* C9: when the delegated gateway call of a pool get, set or delete fails
\* with an error E, the pool operation fails with exactly E.
C9_DelegatedErrorPropagates ==
  \A t \in Threads :
    (/\ thread[t].pc = "done" /\ thread[t].op \in MemOps
     /\ thread[t].gw.kind = "raise")
      => thread[t].exc = thread[t].gw.v

\* C10: once a change of the pool's expire to v has completed, every member
\* in the pool -- idle, released after the change, or added by grow --
\* carries expire == v.
C10_ExpireReachesEveryMember ==
  (\A t \in Threads : thread[t].pc # "expire_loop")
    => \A i \in 1..Len(clients) : gw_expire[clients[i]] = expire

\* the last call made on the gateway, and the one before it
Last == g_log[Len(g_log)]

Previous == g_log[Len(g_log) - 1]

Failed(e) == e.out = Raise("BackendError")

\* C11: on a gateway whose backend answers, set(k, v) followed by get(k)
\* returns v, None included, and delete(k) followed by get(k) fails with
\* KeyError.
C11_GatewayRoundTrip ==
  (Len(g_log) >= 2 /\ Last.op = "getitem" /\ Last.key = Previous.key
   /\ ~Failed(Last) /\ ~Failed(Previous))
    => /\ Previous.op = "setitem" => Last.out = Ok(Previous.value)
       /\ Previous.op = "delitem" => Last.out = Raise("KeyError")

\* C11 witness: None was written and then read back
C11_Witness ==
  /\ Len(g_log) >= 2
  /\ Previous.op = "setitem" /\ Previous.value = "None" /\ ~Failed(Previous)
  /\ Last.op = "getitem" /\ Last.key = Previous.key /\ ~Failed(Last)

\* C12: on a gateway whose backend answers, get(k) and delete(k) of a key
\* that is not stored fail with KeyError and leave the stored keys and
\* values as they were.
C12_MissingKeyFails ==
  (Len(g_log) >= 1 /\ Last.op \in {"getitem", "delitem"}
   /\ ~Last.pre[Last.key].present /\ ~Failed(Last))
    => (Last.out = Raise("KeyError") /\ g_store = Last.pre)

\* C12 witness: a key that is not stored was deleted while another key is
\* stored
C12_Witness ==
  /\ Len(g_log) >= 1
  /\ Last.op = "delitem" /\ ~Last.pre[Last.key].present /\ ~Failed(Last)
  /\ \E k \in GwKeys : Last.pre[k].present

\* C17: a write made through a gateway is stored with the _expire the
\* gateway has at the time of the write (0: no expiry), whatever _expire was
\* before and whatever TTL the key had.
C17_WriteUsesCurrentExpire ==
  (Len(g_log) >= 1 /\ Last.op = "setitem" /\ ~Failed(Last))
    => g_store[Last.key].ttl = g_expire

\* C17 witness: _expire was changed, then a key stored with the old TTL was
\* written again
C17_Witness ==
  /\ Len(g_log) >= 2
  /\ Previous.op = "expire" /\ Previous.exp0 # g_expire
  /\ Last.op = "setitem" /\ ~Failed(Last)
  /\ Last.pre[Last.key].present /\ Last.pre[Last.key].ttl = Previous.exp0
  /\ Previous.exp0 # 0

\* a call of the memoized callable that has ended and not yet returned, and
\* the call before it
Ended(t) == m_thread[t].pc = "done"

Md5 == HashingFunction(m_decorator) = "md5"

Unanswered == {Raise("BackendError"), Raise("ComputeError")}

C14_KeyIgnoresKeywordOrder ==
  \A t \in MemoCallers :
    (Md5 /\ m_thread[t].pc # "idle" /\ m_prev.pc = "done")
      => /\ (m_thread[t].args = m_prev.args
             /\ Range(m_thread[t].kw) = Range(m_prev.kw))
               => m_thread[t].key = m_prev.key
         /\ \A n \in Names \ {m_f} :
              CallKey(n, m_thread[t].args, m_thread[t].kw, m_dict)
                # m_thread[t].key

\* C15: a callable memoized by Memory.__call__ runs the function only after
\* the lookup raised KeyError; a lookup that fails otherwise ends the call
\* with that error, the function not run and the server as it was; a store
\* that fails ends the call with its error.
C15_OnlyKeyErrorComputes ==
  \A t \in MemoCallers :
    (Md5 /\ Ended(t))
      => /\ m_thread[t].computed > 0 => m_thread[t].got = Raise("KeyError")
         /\ m_thread[t].got = Raise("BackendError")
              => /\ m_thread[t].out = Raise("BackendError")
                 /\ m_thread[t].computed = 0
                 /\ g_store = m_thread[t].pre
         /\ (m_thread[t].ops = <<"getitem", "setitem">>
             /\ g_store = m_thread[t].pre)
              => m_thread[t].out = Raise("BackendError")

\* C15 witness: the lookup failed with an error of the backend while a value
\* is stored
C15_Witness ==
  \E t \in MemoCallers :
    /\ Md5 /\ Ended(t)
    /\ m_thread[t].got = Raise("BackendError")
    /\ \E k \in MemoKeys : g_store[k].present

\* C16: a call of a callable built by memoize(memory), like one built by
\* memory(f), looks the key up once and returns the stored value, or runs
\* the function, stores its result under the key and returns it.
C16_MemoizeActsAsMemoryCall ==
  \A t \in MemoCallers :
    (Ended(t) /\ m_thread[t].out \notin Unanswered)
      => LET key == CallKey(m_f, m_thread[t].args, m_thread[t].kw, m_dict)
             stored == GwGetOutcome(g_kind, m_thread[t].pre, key)
         IN  IF stored.kind = "ok"
               THEN /\ m_thread[t].out = stored
                    /\ m_thread[t].ops = <<"getitem">>
               ELSE /\ m_thread[t].out = GwGetOutcome(g_kind, g_store, key)
                    /\ m_thread[t].out.kind = "ok"
                    /\ m_thread[t].ops = <<"getitem", "setitem">>

\* a callable built by Memory.__call__ does what C16 says of both
C16_MemoryCallReference == Md5 => C16_MemoizeActsAsMemoryCall

\* a thread inside the loop of grow or shrink, the lock held
Resizing(t) == thread[t].pc \in {"grow_loop", "shrink_loop"}

\* a grow(n) or shrink(n) that has changed the list and has more to change
HalfResized(t) ==
  /\ Resizing(t)
  /\ 0 < thread[t].iter /\ thread[t].iter < RangeLen(thread[t].number)

C19_ReleaseKeepsUpperLimit ==
  [][\A t \in Threads :
       (thread[t].pc = "return_append" /\ thread'[t].pc = "done")
         => Len(clients') <= upper_limit]_vars

\* C20: an operation that has ended, by returning or by raising, does not
\* hold the lock of the list, so that a count() called afterwards can
\* acquire it.
C20_LockReleasedOnExit ==
  \A t \in Threads : thread[t].pc \in {"idle", "done"} => lock # t

\* the claim of a get, set or delete has failed: the pop found the list
\* empty and no gateway was bound
ClaimFailed(t) == thread[t].pc = "finally" /\ thread[t].client = NoClient

\* C21: in a pool with lower_limit >= 1 used by threads that get, set and
\* delete, no claim finds the list empty.
C21_ClaimNeverFails ==
  \A t \in Threads : lower_limit >= 1 => ~ClaimFailed(t)

C27_InitialCountWithinLimits ==
  untouched
    => /\ 2 * Len(clients) <= Abs(upper_limit + lower_limit)
       /\ Abs(upper_limit + lower_limit) < 2 * Len(clients) + 2
       /\ lower_limit <= Len(clients)
       /\ Len(clients) <= upper_limit

\* C27 witness: a new pool whose limits have an odd sum and a lower limit
\* above zero
C27_Witness ==
  /\ untouched
  /\ lower_limit >= 1
  /\ (upper_limit + lower_limit) % 2 = 1

\* C23: a set or delete whose claim failed, so that no delegated call was
\* made, ends with the error the claim raised (the cleanup of get fails on
\* every call, whatever the claim did: C4).
C23_ClaimErrorSurvivesCleanup ==
  \A t \in Threads :
    (thread[t].pc = "done" /\ thread[t].op \in {"setitem", "delitem"}
     /\ thread[t].gw = NoOutcome)
      => thread[t].exc = "IndexError"

\* C24: a thread whose delegated gateway call is executing does not hold
\* the lock of the list.
C24_NoLockAcrossDelegatedCall ==
  \A t \in Threads : thread[t].pc = "delegate" => lock # t

\* C24 witness: while the delegated call of one thread is executing, another
\* thread has acquired the lock
C24_Witness ==
  \E t, u \in Threads :
    t # u /\ thread[t].pc = "delegate" /\ lock = u /\ Resizing(u)

\* the gateways on which a close or dispose call has been made: shrink and
\* _return_client make none, and MemcacheMemory defines no such method
Disposed == {}

\* a step of a shrink, or of the release of a set or delete
DropStep(t) ==
  /\ thread'[t] # thread[t]
  /\ \/ thread[t].pc = "shrink_loop"
     \/ thread[t].pc = "return_count"

\* C25: a member that a shrink removes, or that a release does not put
\* back, has been disposed when it stops being reachable.
C25_DroppedMemberIsDisposed ==
  [][\A t \in Threads :
       DropStep(t) => \A c \in Live : c \notin Live' => c \in Disposed]_vars

\* a call that found no value stored under its key when it started
Cold(t) ==
  /\ m_thread[t].ops # <<>>
  /\ ~m_thread[t].pre[m_thread[t].key].present

\* C26: two calls of one memoized callable with identical arguments that
\* overlap in time and both started on a cold cache run the function at
\* most once between them.
C26_ConcurrentCallsComputeOnce ==
  \A t, u \in MemoPair :
    (t # u /\ Ended(t) /\ Ended(u)
     /\ m_thread[t].args = m_thread[u].args /\ m_thread[t].kw = m_thread[u].kw
     /\ Cold(t) /\ Cold(u))
      => m_thread[t].computed + m_thread[u].computed <= 1

====
